---- MODULE Spec2Model ----
(***************************************************************************)
(* Sentence-pair similarity harness of Practica_Final_DL_NLP_MAM.ipynb:    *)
(* dataset ingestion, tokenization, the padding collator, the three        *)
(* models' layer-freezing constructors, and train_model's epoch loop with  *)
(* best-checkpoint selection.                                              *)
(*                                                                         *)
(* Floats are records: Num(v) is a defined value, NaN an undefined one and *)
(* NegInf is -float("inf").  Scores and labels are fixed-point integers in *)
(* units of 1/Divisor, so that s / 5.0 is an integer division that can be  *)
(* told apart from the identity.                                           *)
(***************************************************************************)
EXTENDS Integers, Sequences, FiniteSets, TLC

\* ------------------------------------------------------------------ bounds
\* Largest epochs argument of train_model that is explored.
MaxEpochs == 3
\* Largest len(train_loader) that is explored.
MaxBatches == 2
\* Largest len(val_loader) that is explored.
MaxValBatches == 2
\* len(self.bert.encoder.layer) of the encoder that is explored.
NumLayers == 2
\* Validation metrics are drawn from the grid -MaxMetric..MaxMetric.
MaxMetric == 1
\* Longest sentence, in word pieces, that is explored.
MaxWords == 3
\* The DataLoaders' batch_size that is explored (the notebook sets 8); the
\* dataset holds one full batch and a final batch of one example.
batch_size == 2

\* --------------------------------------------------------------- constants
\* s / 5.0 in normalize_labels; also the fixed-point resolution: the integer
\* k stands for the score or label k / Divisor.
Divisor == 5
\* max_length of tokenize_function, infer_similarity and the collator.
max_length == 128
\* The tokenizer's [PAD], [CLS] and [SEP] ids.
pad_token_id == 0
cls_token_id == 101
sep_token_id == 102

\* ------------------------------------------------------------------ floats
Num(v) == [kind |-> "num", val |-> v]
NaN == [kind |-> "nan", val |-> 0]
NegInf == [kind |-> "ninf", val |-> 0]

\* Python's a >= b on floats: every comparison with nan is False.
GreaterEq(a, b) ==
    IF a.kind = "nan" \/ b.kind = "nan" THEN FALSE
    ELSE IF b.kind = "ninf" THEN TRUE
    ELSE IF a.kind = "ninf" THEN FALSE
    ELSE a.val >= b.val

\* Python's a > b on floats: every comparison with nan is False.
Greater(a, b) ==
    IF a.kind = "nan" \/ b.kind = "nan" THEN FALSE
    ELSE IF a.kind = "ninf" THEN FALSE
    ELSE IF b.kind = "ninf" THEN TRUE
    ELSE a.val > b.val

\* What scipy's pearsonr can return over a validation split: a correlation
\* on the grid, or nan when the predictions (or the labels) are constant.
Metrics == {Num(v) : v \in (0 - MaxMetric)..MaxMetric} \cup {NaN}

\* loss.item() of one batch of train_model's epoch loop, abstracted to one
\* unit of loss.
LossValues == {Num(1)}

ModelTypes == {"bert", "siamese", "cross"}

\* Values of the freeze_layers argument, in range and one step out of range
\* on both sides.
FreezeDepths == (0 - 1)..(NumLayers + 1)

\* ------------------------------------------------------------ state_dicts
\* Parameters are identified by the run that produced them and the number
\* of optimizer steps applied to them in that run.
StateDict(origin, step) == [origin |-> origin, step |-> step]
\* No file at best_model_path.
NoFile == StateDict("none", 0)
\* A file left at best_model_path by an earlier call with the same
\* model_type and output_dir.
StaleFile == StateDict("previous", 0)

VARIABLES
    pc,                 \* position in the notebook's control flow
    model_type,         \* "bert" | "siamese" | "cross"
    freeze_layers,      \* the constructor's freeze_layers argument
    requires_grad,      \* encoder layer index (0-based) -> p.requires_grad
    embeddings_grad,    \* requires_grad of self.bert.embeddings' parameters
    epochs,             \* train_model's epochs argument
    num_batches,        \* len(train_loader)
    epoch,              \* number of loop iterations started (epoch + 1)
    batch_idx,          \* batches of the current epoch already stepped
    params,             \* the live model's parameters
    mode,               \* "train" | "eval" (model.training)
    grad_enabled,       \* torch.is_grad_enabled()
    num_val_batches,    \* len(val_loader)
    val_idx,            \* batches of val_loader already evaluated
    optimizer_steps,    \* optimizer.step() calls
    scheduler_steps,    \* scheduler.step() calls
    num_training_steps, \* the schedule's total
    total_loss,         \* total_loss of the current epoch
    pearson_corr,       \* pearson_corr of the current epoch
    history,            \* list of (avg_train_loss, pearson_corr)
    best_pearson,       \* best_pearson
    checkpoint,         \* content of best_model_path
    writes,             \* torch.save calls, one counter per started epoch
    best_log,           \* best_pearson after each checkpoint decision
    trace,              \* the steps of train_model executed so far
    dpc,                \* position in the data pipeline
    csv_path,           \* "None" or the path of a custom CSV
    source,             \* the records the sentence-pair source supplies
    dataset,            \* dataset, after loading
    tokenized_datasets, \* dataset.map(tokenize_function)
    loader_pos,         \* batches the DataLoader has yielded
    examples,           \* the list handed to the collator
    batch,              \* the collated batch
    loss_labels,        \* the labels tensor last handed to loss / evaluation
    ppc,                \* position in one pass over a loader, or one call
    phase,              \* which function the pass belongs to
    outputs,            \* outputs = model(inputs1, mask1, inputs2, mask2)
    loss,               \* loss of the current batch
    params_defined,     \* no parameter of the live model is nan
    avg_train_loss,     \* avg_train_loss of the epoch
    preds,              \* evaluate_model's preds
    labels,             \* evaluate_model's labels
    similarity          \* infer_similarity's similarity

dataVars == <<dpc, csv_path, source, dataset, tokenized_datasets, loader_pos,
              examples, batch, loss_labels>>

passVars == <<ppc, phase, outputs, loss, params_defined, avg_train_loss,
              preds, labels, similarity>>

evalVars == <<grad_enabled, num_val_batches, val_idx>>

vars == <<pc, model_type, freeze_layers, requires_grad, embeddings_grad,
          epochs, num_batches, epoch, batch_idx, params, mode,
          optimizer_steps, scheduler_steps, num_training_steps, total_loss,
          pearson_corr, history, best_pearson, checkpoint, writes, best_log,
          trace, dataVars, passVars, evalVars>>

configVars == <<model_type, freeze_layers, epochs, num_batches>>
modelVars == <<requires_grad, embeddings_grad>>

\* ----------------------------------------------------------- data pipeline
Min(a, b) == IF a < b THEN a ELSE b

\* The largest element of a non-empty set of integers.
SetMax(S) == CHOOSE x \in S : \A y \in S : y <= x

\* A sentence of n word pieces, the ids of which lie above the special ones
\* and start after first.
Sentence(first, n) == [i \in 1..n |-> sep_token_id + first + i]
\* First sentences: every length up to MaxWords.
Sentences1 == {Sentence(0, n) : n \in 1..MaxWords}
\* Second sentences: the shortest and the longest, of other word pieces.
Sentences2 == {Sentence(MaxWords, 1), Sentence(MaxWords, MaxWords)}

\* The external score x.0, in fixed point.
Fixed(x) == x * Divisor

\* Scores the sentence-pair source supplies: the two ends, 0.0 and 5.0, of
\* its 0..5 scale.
SourceScores == {Fixed(0), Fixed(5)}

\* len(dataset): one full batch and a final batch of one example.
NumExamples == batch_size + 1

SourceRecords ==
    [sentence1 : Sentences1, sentence2 : Sentences2, score : SourceScores]

\* normalize_labels: examples["score"] = [s / 5.0 for s in examples["score"]]
normalize_labels(ds) ==
    [i \in 1..Len(ds) |-> [ds[i] EXCEPT !.score = ds[i].score \div Divisor]]

\* load_custom_dataset(csv_path) with a CSV: read it, check its columns,
\* normalize the scores.
load_custom_dataset(records) == normalize_labels(records)

\* load_dataset("mteb/stsbenchmark-sts"): the benchmark's records as they
\* are, scores on the benchmark's own 0..5 scale.
load_dataset(records) == records

\* seq followed by fill up to length width.
PadRight(seq, width, fill) ==
    [p \in 1..(IF width > Len(seq) THEN width ELSE Len(seq)) |->
        IF p <= Len(seq) THEN seq[p] ELSE fill]

\* tokenizer(text, padding=..., truncation=True, max_length=...): [CLS], the
\* word pieces cut so that the whole fits max_length, [SEP]; an attention
\* mask of ones; with padding="max_length" both are filled up to max_length.
Tokenizer(text, padding, maxlen) ==
    LET kept == SubSeq(text, 1, Min(Len(text), maxlen - 2))
        ids == <<cls_token_id>> \o kept \o <<sep_token_id>>
        mask == [p \in 1..Len(ids) |-> 1]
    IN  IF padding = "max_length"
        THEN [input_ids |-> PadRight(ids, maxlen, pad_token_id),
              attention_mask |-> PadRight(mask, maxlen, 0)]
        ELSE [input_ids |-> ids, attention_mask |-> mask]

\* tokenize_function: both sentences tokenized separately with
\* padding=False, the score kept as it is.
tokenize_function(ds) ==
    [i \in 1..Len(ds) |->
        LET encodings1 == Tokenizer(ds[i].sentence1, "False", max_length)
            encodings2 == Tokenizer(ds[i].sentence2, "False", max_length)
        IN  [input_ids1 |-> encodings1.input_ids,
             attention_mask1 |-> encodings1.attention_mask,
             input_ids2 |-> encodings2.input_ids,
             attention_mask2 |-> encodings2.attention_mask,
             score |-> ds[i].score]]

\* STSDataset.__getitem__
STSDataset_getitem(data, idx) ==
    [input_ids1 |-> data[idx].input_ids1,
     attention_mask1 |-> data[idx].attention_mask1,
     input_ids2 |-> data[idx].input_ids2,
     attention_mask2 |-> data[idx].attention_mask2,
     labels |-> data[idx].score]

\* len(loader) of a DataLoader over n examples.
LoaderLen(n) == (n + batch_size - 1) \div batch_size

\* The dataset indices (1-based) of the DataLoader's batch number pos
\* (0-based), in dataset order.
BatchIndices(pos, n) ==
    [k \in 1..(Min((pos + 1) * batch_size, n) - pos * batch_size) |->
        pos * batch_size + k]

\* A padding width that ignores the batch: padding="max_length".
PadWidth_MaxLength(features) == max_length

\* DataCollatorWithPadding pads with padding=True: to the longest input_ids
\* of the features it is given.
PadWidth(features) ==
    SetMax({Len(features[i].input_ids) : i \in 1..Len(features)})

\* self.padding_collator(features): every input_ids padded on the right with
\* the pad token, every attention_mask with 0.
padding_collator(features) ==
    [input_ids |-> [i \in 1..Len(features) |->
         PadRight(features[i].input_ids, PadWidth(features), pad_token_id)],
     attention_mask |-> [i \in 1..Len(features) |->
         PadRight(features[i].attention_mask, PadWidth(features), 0)]]

\* torch.tensor(x, dtype=torch.float32): the float32 nearest to x. Rounding
\* is monotone and keeps 0.0 and 1.0, so the element is kept by its grid
\* value and tagged with its dtype.
Float32(x) == [dtype |-> "float32", val |-> x]

\* A labels list taken in reverse order.
CollateLabels_Reversed(exs) ==
    [i \in 1..Len(exs) |-> Float32(exs[Len(exs) + 1 - i].labels)]

\* labels = [ex['labels'] for ex in examples], then torch.tensor(labels).
CollateLabels(exs) == [i \in 1..Len(exs) |-> Float32(exs[i].labels)]

\* CustomDataCollatorWithPadding.__call__
CustomDataCollatorWithPadding_call(exs) ==
    LET features1 == [i \in 1..Len(exs) |->
            [input_ids |-> exs[i].input_ids1,
             attention_mask |-> exs[i].attention_mask1]]
        features2 == [i \in 1..Len(exs) |->
            [input_ids |-> exs[i].input_ids2,
             attention_mask |-> exs[i].attention_mask2]]
        batch1 == padding_collator(features1)
        batch2 == padding_collator(features2)
    IN  [input_ids1 |-> batch1.input_ids,
         attention_mask1 |-> batch1.attention_mask,
         input_ids2 |-> batch2.input_ids,
         attention_mask2 |-> batch2.attention_mask,
         labels |-> CollateLabels(exs)]

NoBatch ==
    [input_ids1 |-> <<>>, attention_mask1 |-> <<>>, input_ids2 |-> <<>>,
     attention_mask2 |-> <<>>, labels |-> <<>>]

\* The data pipeline has not run (the training specification).
DataIdle ==
    /\ dpc = "idle"
    /\ csv_path = "None"
    /\ source = <<>>
    /\ dataset = <<>>
    /\ tokenized_datasets = <<>>
    /\ loader_pos = 0
    /\ examples = <<>>
    /\ batch = NoBatch
    /\ loss_labels = <<>>

\* ----------------------------------------------------------------- tensors
\* A value that has not been computed yet.
None == [kind |-> "none", val |-> 0]

\* A tensor of floats: dim 0 is a scalar tensor whose data holds its one
\* item, dim 1 a vector.
Tensor(d, data) == [dim |-> d, data |-> data]
NoTensor == Tensor(1, <<>>)

AllNum(seq) == \A i \in 1..Len(seq) : seq[i].kind = "num"
Vals(seq) == [i \in 1..Len(seq) |-> seq[i].val]

\* seq[lo] + ... + seq[hi], by halves.
RECURSIVE SumRange(_, _, _)
SumRange(seq, lo, hi) ==
    IF lo > hi THEN 0
    ELSE IF lo = hi THEN seq[lo]
    ELSE SumRange(seq, lo, (lo + hi) \div 2)
             + SumRange(seq, (lo + hi) \div 2 + 1, hi)

Sum(seq) == SumRange(seq, 1, Len(seq))

RECURSIVE Pow2(_)
Pow2(n) == IF n <= 0 THEN 1 ELSE 2 * Pow2(n - 1)

Abs(x) == IF x < 0 THEN 0 - x ELSE x

\* The largest r with r * r <= n.
RECURSIVE ISqrt(_)
ISqrt(n) ==
    IF n < 2 THEN n
    ELSE LET s == 2 * ISqrt(n \div 4)
         IN  IF (s + 1) * (s + 1) <= n THEN s + 1 ELSE s

RECURSIVE GCD(_, _)
GCD(a, b) == IF b = 0 THEN Abs(a) ELSE GCD(b, a % Abs(b))

\* The greatest common divisor of seq[lo..hi], 0 for none or all zero.
RECURSIVE SeqGCD(_, _, _)
SeqGCD(seq, lo, hi) ==
    IF lo > hi THEN 0 ELSE GCD(seq[lo], SeqGCD(seq, lo + 1, hi))

\* v - mean(v) up to a positive factor: n * v[i] - sum(v), reduced by the
\* common divisor of the entries so that the products below stay in range.
\* A correlation does not depend on the factor.
Centred(v) ==
    LET n == Len(v)
        c == [i \in 1..n |-> n * v[i] - Sum(v)]
        g == SeqGCD(c, 1, n)
    IN  IF g = 0 THEN c ELSE [i \in 1..n |-> c[i] \div g]

\* Beyond this exponent the float32 sigmoid and tanh no longer change.
SaturationExponent == 12

\* torch.nn.Sigmoid on the fixed grid: the logistic curve, to base 2.
Sigmoid(z) ==
    LET e == Min(Abs(z) \div Divisor, SaturationExponent)
    IN  IF z >= 0 THEN (Fixed(1) * Pow2(e)) \div (Pow2(e) + 1)
        ELSE Fixed(1) \div (Pow2(e) + 1)

\* A squashing transform that squashes nothing.
Tanh_Unbounded(z) == z

\* torch.tanh on the fixed grid: odd, within -1.0 .. 1.0.
Tanh(z) ==
    LET e == Min(Abs(z) \div Divisor, SaturationExponent)
        t == (Fixed(1) * (Pow2(2 * e) - 1)) \div (Pow2(2 * e) + 1)
    IN  IF z >= 0 THEN t ELSE 0 - t

ReLU(x) == IF x > 0 THEN x ELSE 0

\* tensor.squeeze() of a [B, 1] tensor: every dimension of size 1 goes, so a
\* batch of one example leaves a scalar tensor.
Squeeze(rows) ==
    IF Len(rows) = 1 THEN Tensor(0, <<rows[1][1]>>)
    ELSE Tensor(1, [i \in 1..Len(rows) |-> rows[i][1]])

\* ----------------------------------------------------------------- forward
\* The encoder is a function of each row's unmasked tokens: the hidden state
\* of position t of row b is the row's context plus the token's own feature.
WordFeature(id) == IF id = pad_token_id THEN 0 ELSE Fixed(id - cls_token_id)

Context(ids, mask) ==
    Sum([p \in 1..Len(ids) |-> mask[p] * WordFeature(ids[p])])

\* self.bert(input_ids, attention_mask=attention_mask).last_hidden_state
Bert(input_ids, attention_mask) ==
    [b \in 1..Len(input_ids) |->
        [t \in 1..Len(input_ids[b]) |->
            Context(input_ids[b], attention_mask[b])
                + WordFeature(input_ids[b][t])]]

\* last_hidden_state[:, 0, :]
ClsState(hidden) == [b \in 1..Len(hidden) |-> hidden[b][1]]

\* SentenceSimilarityModelOne.regressor on one row of combined, under one
\* assignment of its weights: Linear, ReLU, Linear, Sigmoid.
SentenceSimilarityModelOne_regressor(row) ==
    Sigmoid(ReLU(row[1] - row[2] + Fixed(3)) - Fixed(1))

\* SentenceSimilarityModelOne.forward
SentenceSimilarityModelOne_forward(b) ==
    LET output1 == ClsState(Bert(b.input_ids1, b.attention_mask1))
        output2 == ClsState(Bert(b.input_ids2, b.attention_mask2))
        combined == [i \in 1..Len(output1) |-> <<output1[i], output2[i]>>]
    IN  Squeeze([i \in 1..Len(combined) |->
            <<Num(SentenceSimilarityModelOne_regressor(combined[i]))>>])

\* SiameseBERT.regressor on one row of combined: Linear, ReLU, Linear; no
\* bounding layer.
SiameseBERT_regressor(row) ==
    ReLU(row[2] - row[1] - 5 * row[3]) - Fixed(3)

\* SiameseBERT.forward
SiameseBERT_forward(b) ==
    LET output1 == ClsState(Bert(b.input_ids1, b.attention_mask1))
        output2 == ClsState(Bert(b.input_ids2, b.attention_mask2))
        diff == [i \in 1..Len(output1) |-> Abs(output1[i] - output2[i])]
        mult == [i \in 1..Len(output1) |->
                    (output1[i] * output2[i]) \div Divisor]
        combined == [i \in 1..Len(output1) |->
                        <<diff[i], mult[i], output1[i]>>]
    IN  Squeeze([i \in 1..Len(combined) |->
            <<Num(SiameseBERT_regressor(combined[i]))>>])

\* (output * mask).sum(dim=1) / mask.sum(dim=1) for one row: 0 / 0 is nan.
MaskedMean(hidden, mask) ==
    IF Sum(mask) = 0 THEN NaN
    ELSE Num(Sum([t \in 1..Len(hidden) |-> hidden[t] * mask[t]])
                 \div Sum(mask))

\* The attention weight of a key for a query, before normalisation: the
\* exponential, to base 2, of the scaled dot product.
AttentionWeight(q, k) ==
    Pow2(Min((q * k) \div (Divisor * Divisor), SaturationExponent))

\* An attention that takes its inputs as (N, L, E): the keys of a query are
\* the other entries along the second axis.
MultiheadAttention_BatchFirst(query, key, value) ==
    [l \in 1..Len(query) |-> [n \in 1..Len(query[l]) |->
        IF \/ query[l][n].kind # "num"
           \/ \E s \in 1..Len(key[l]) :
                  key[l][s].kind # "num" \/ value[l][s].kind # "num"
        THEN NaN
        ELSE Num(Sum([s \in 1..Len(key[l]) |->
                     AttentionWeight(query[l][n].val, key[l][s].val)
                         * value[l][s].val])
                 \div Sum([s \in 1..Len(key[l]) |->
                     AttentionWeight(query[l][n].val, key[l][s].val)]))]]

\* torch.nn.MultiheadAttention(embed_dim, num_heads) with batch_first left
\* False: query is (L, N, E), key and value are (S, N, E); entry n of output
\* position l is the weighted mean of value[s][n] over the positions s.
MultiheadAttention(query, key, value) ==
    [l \in 1..Len(query) |-> [n \in 1..Len(query[l]) |->
        IF \/ query[l][n].kind # "num"
           \/ \E s \in 1..Len(key) :
                  key[s][n].kind # "num" \/ value[s][n].kind # "num"
        THEN NaN
        ELSE Num(Sum([s \in 1..Len(key) |->
                     AttentionWeight(query[l][n].val, key[s][n].val)
                         * value[s][n].val])
                 \div Sum([s \in 1..Len(key) |->
                     AttentionWeight(query[l][n].val, key[s][n].val)]))]]

\* CrossAttentionModel.regressor on one row of combined: Linear, ReLU,
\* Linear, Sigmoid; nan in, nan out.
CrossAttentionModel_regressor(row) ==
    IF row[1].kind # "num" \/ row[2].kind # "num" THEN NaN
    ELSE Num(Sigmoid(ReLU(3 * row[1].val - row[2].val) - Fixed(10)))

\* CrossAttentionModel.forward up to the pooled vectors: the encoder and the
\* masked mean of each side.
CrossAttentionModel_pooled(b) ==
    LET hidden1 == Bert(b.input_ids1, b.attention_mask1)
        hidden2 == Bert(b.input_ids2, b.attention_mask2)
    IN  [output1 |-> [i \in 1..Len(hidden1) |->
                        MaskedMean(hidden1[i], b.attention_mask1[i])],
         output2 |-> [i \in 1..Len(hidden2) |->
                        MaskedMean(hidden2[i], b.attention_mask2[i])]]

\* output1.unsqueeze(0), output2.unsqueeze(0), self.attention(output1,
\* output2, output2), attn_output.squeeze(0)
CrossAttentionModel_attention(pooled) ==
    LET output1 == <<pooled.output1>>
        output2 == <<pooled.output2>>
    IN  MultiheadAttention(output1, output2, output2)[1]

\* CrossAttentionModel.forward
CrossAttentionModel_forward(b) ==
    LET pooled == CrossAttentionModel_pooled(b)
        attn_output == CrossAttentionModel_attention(pooled)
        combined == [i \in 1..Len(attn_output) |->
                        <<pooled.output1[i], attn_output[i]>>]
    IN  Squeeze([i \in 1..Len(combined) |->
            <<CrossAttentionModel_regressor(combined[i])>>])

\* model(inputs1, mask1, inputs2, mask2): the forward of the model's class;
\* a model that holds a nan parameter returns nan for every example.
Forward(t, defined, b) ==
    LET out == CASE t = "bert" -> SentenceSimilarityModelOne_forward(b)
                 [] t = "siamese" -> SiameseBERT_forward(b)
                 [] t = "cross" -> CrossAttentionModel_forward(b)
    IN  IF defined THEN out
        ELSE Tensor(out.dim, [i \in 1..Len(out.data) |-> NaN])

\* ------------------------------------------------------------------ losses
\* batch["labels"] as floats.
LabelFloats(lbls) == [i \in 1..Len(lbls) |-> Num(lbls[i].val)]

\* pearson_correlation_loss: both vectors are centred, the correlation is
\* their dot product over the product of their norms, 0 / 0 is nan.
pearson_correlation_loss(out, targets) ==
    IF ~AllNum(out) \/ ~AllNum(targets) THEN NaN
    ELSE LET n == Len(out)
             o == Centred(Vals(out))
             t == Centred(Vals(targets))
             norm2_outputs == Sum([i \in 1..n |-> o[i] * o[i]])
             norm2_targets == Sum([i \in 1..n |-> t[i] * t[i]])
             dot == Sum([i \in 1..n |-> o[i] * t[i]])
             norms == ISqrt(norm2_outputs * norm2_targets)
         IN  IF norms = 0 THEN NaN
             ELSE Num(Fixed(1) - (dot * Divisor) \div norms)

\* torch.nn.MSELoss()(outputs, labels): a scalar tensor broadcasts against a
\* vector of one label.
MSELoss(out, targets) ==
    IF ~AllNum(out) \/ ~AllNum(targets) THEN NaN
    ELSE Num(Sum([i \in 1..Len(out) |->
                 (out[i].val - targets[i].val) * (out[i].val - targets[i].val)])
             \div (Len(out) * Divisor))

\* A loss that does not look at the architecture.
LossFunction_AlwaysMSE(t) == "mse"

\* if model_type == "siamese": pearson_correlation_loss, else MSELoss
LossFunction(t) == IF t = "siamese" THEN "pearson" ELSE "mse"

\* The loss of one training batch.
BatchLoss(t, out, targets) ==
    IF LossFunction(t) = "pearson"
    THEN pearson_correlation_loss(out, targets)
    ELSE MSELoss(out, targets)

\* total_loss += loss.item(): nan absorbs.
AddLoss(total, l) ==
    IF total.kind = "num" /\ l.kind = "num" THEN Num(total.val + l.val)
    ELSE NaN

\* No pass is under way (the training and data pipeline specifications).
PassIdle ==
    /\ ppc = "idle"
    /\ phase = "idle"
    /\ outputs = NoTensor
    /\ loss = None
    /\ params_defined = TRUE
    /\ avg_train_loss = None
    /\ preds = <<>>
    /\ labels = <<>>
    /\ similarity = None

\* ------------------------------------------------------------ constructors
\* What a constructor leaves behind: requires_grad of every encoder layer
\* (0-based from the bottom) and of the embeddings. AutoModel.from_pretrained
\* returns every parameter with requires_grad = True.
Pretrained(n) == [layers |-> [i \in 0..(n - 1) |-> TRUE], embeddings |-> TRUE]

\* SentenceSimilarityModelOne.__init__: layer i is frozen when
\* i < len(self.bert.encoder.layer) - freeze_layers; nothing else is touched.
SentenceSimilarityModelOne_init(n, f) ==
    [layers |-> [i \in 0..(n - 1) |->
                    IF i < n - f THEN FALSE ELSE Pretrained(n).layers[i]],
     embeddings |-> Pretrained(n).embeddings]

\* A SiameseBERT.__init__ that also freezes the layer at index n - f.
SiameseBERT_init_OffByOne(n, f) ==
    [layers |-> [i \in 0..(n - 1) |->
                    IF i <= n - f THEN FALSE ELSE Pretrained(n).layers[i]],
     embeddings |-> Pretrained(n).embeddings]

\* SiameseBERT.__init__: the same loop.
SiameseBERT_init(n, f) ==
    [layers |-> [i \in 0..(n - 1) |->
                    IF i < n - f THEN FALSE ELSE Pretrained(n).layers[i]],
     embeddings |-> Pretrained(n).embeddings]

\* CrossAttentionModel.__init__: the same loop.
CrossAttentionModel_init(n, f) ==
    [layers |-> [i \in 0..(n - 1) |->
                    IF i < n - f THEN FALSE ELSE Pretrained(n).layers[i]],
     embeddings |-> Pretrained(n).embeddings]

\* The class behind each model_type of the models dictionary.
ModelClass(t, n, f) ==
    CASE t = "bert" -> SentenceSimilarityModelOne_init(n, f)
      [] t = "siamese" -> SiameseBERT_init(n, f)
      [] t = "cross" -> CrossAttentionModel_init(n, f)

\* ------------------------------------------------------------- train_model
\* An epoch loop that runs one iteration too many.
EpochsRemain_OneMore(e, n) == e <= n

\* for epoch in range(epochs): another iteration remains.
EpochsRemain(e, n) == e < n

\* for batch in train_loader: the loader is exhausted.
LoaderExhausted(b, n) == b >= n

\* A checkpoint test that also fires on a tie.
Improves_OnTie(corr, best) == GreaterEq(corr, best)

\* if pearson_corr > best_pearson
Improves(corr, best) == Greater(corr, best)

\* A schedule sized to one epoch.
NumTrainingSteps_OneEpoch(n, e) == n

\* num_training_steps=len(train_loader) * epochs
NumTrainingSteps(n, e) == n * e

\* A model.train() that leaves the mode as it finds it.
Module_train_Skipped(m) == m

\* model.train(): self.training = True, whatever it was.
Module_train(m) == "train"

\* model.eval(): self.training = False, whatever it was.
Module_eval(m) == "eval"

\* avg_train_loss = total_loss / len(train_loader)
AvgTrainLoss(total, n) ==
    IF total.kind = "num" THEN Num(total.val \div n) ELSE NaN

\* The notebook before any model is built.
TrainStart ==
    /\ pc = "construct"
    /\ model_type \in ModelTypes
    /\ freeze_layers \in FreezeDepths
    /\ requires_grad = Pretrained(NumLayers).layers
    /\ embeddings_grad = Pretrained(NumLayers).embeddings
    /\ epochs \in 0..MaxEpochs
    /\ num_batches \in 1..MaxBatches
    /\ num_val_batches \in 1..MaxValBatches
    /\ val_idx = 0
    /\ grad_enabled = TRUE
    /\ epoch = 0
    /\ batch_idx = 0
    /\ params = StateDict("this", 0)
    /\ mode = "train"
    /\ optimizer_steps = 0
    /\ scheduler_steps = 0
    /\ num_training_steps = 0
    /\ total_loss = Num(0)
    /\ pearson_corr = NaN
    /\ history = <<>>
    /\ best_pearson = NegInf
    /\ checkpoint \in {NoFile, StaleFile}
    /\ writes = <<>>
    /\ best_log = <<>>
    /\ trace = <<>>

Init == TrainStart /\ DataIdle /\ PassIdle

\* model = <Class>(freeze_layers=...).to(device)
Construct ==
    /\ pc = "construct"
    /\ UNCHANGED <<dataVars, passVars, evalVars>>
    /\ requires_grad' = ModelClass(model_type, NumLayers, freeze_layers).layers
    /\ embeddings_grad' =
           ModelClass(model_type, NumLayers, freeze_layers).embeddings
    /\ pc' = "call"
    /\ UNCHANGED <<configVars, epoch, batch_idx, params, mode,
                   optimizer_steps, scheduler_steps, num_training_steps,
                   total_loss, pearson_corr, history, best_pearson,
                   checkpoint, writes, best_log, trace>>

\* train_model up to its epoch loop: model.train(), optimizer, scheduler,
\* history = [], best_pearson = -inf, makedirs.
TrainModelInit ==
    /\ pc = "call"
    /\ UNCHANGED <<dataVars, passVars, evalVars>>
    /\ mode' = Module_train(mode)
    /\ num_training_steps' = NumTrainingSteps(num_batches, epochs)
    /\ history' = <<>>
    /\ best_pearson' = NegInf
    /\ trace' = <<"Init">>
    /\ pc' = "epoch"
    /\ UNCHANGED <<configVars, modelVars, epoch, batch_idx, params,
                   optimizer_steps, scheduler_steps, total_loss,
                   pearson_corr, checkpoint, writes, best_log>>

\* The head of one iteration of the epoch loop: total_loss = 0, model.train().
EpochHead ==
    /\ pc = "epoch"
    /\ UNCHANGED <<dataVars, passVars, evalVars>>
    /\ EpochsRemain(epoch, epochs)
    /\ epoch' = epoch + 1
    /\ total_loss' = Num(0)
    /\ mode' = Module_train(mode)
    /\ batch_idx' = 0
    /\ writes' = Append(writes, 0)
    /\ pc' = "batch"
    /\ UNCHANGED <<configVars, modelVars, params, optimizer_steps,
                   scheduler_steps, num_training_steps, pearson_corr,
                   history, best_pearson, checkpoint, best_log, trace>>

\* The epoch loop ends: range(epochs) is exhausted.
EpochLoopExit ==
    /\ pc = "epoch"
    /\ UNCHANGED <<dataVars, passVars, evalVars>>
    /\ ~EpochsRemain(epoch, epochs)
    /\ pc' = "terminate"
    /\ UNCHANGED <<configVars, modelVars, epoch, batch_idx, params, mode,
                   optimizer_steps, scheduler_steps, num_training_steps,
                   total_loss, pearson_corr, history, best_pearson,
                   checkpoint, writes, best_log, trace>>

\* One iteration of the batch loop, up to the parameter update: zero_grad,
\* forward, loss, backward, optimizer.step().
TrainBatch ==
    /\ pc = "batch"
    /\ UNCHANGED <<dataVars, passVars, evalVars>>
    /\ ~LoaderExhausted(batch_idx, num_batches)
    /\ params' = StateDict(params.origin, params.step + 1)
    /\ optimizer_steps' = optimizer_steps + 1
    /\ pc' = "step"
    /\ UNCHANGED <<configVars, modelVars, epoch, batch_idx, mode,
                   scheduler_steps, num_training_steps, total_loss,
                   pearson_corr, history, best_pearson, checkpoint, writes,
                   best_log, trace>>

\* The rest of the iteration: scheduler.step(), total_loss += loss.item().
TrainBatchEnd ==
    /\ pc = "step"
    /\ UNCHANGED <<dataVars, passVars, evalVars>>
    /\ scheduler_steps' = scheduler_steps + 1
    /\ \E item \in LossValues : total_loss' = AddLoss(total_loss, item)
    /\ batch_idx' = batch_idx + 1
    /\ trace' = Append(trace, "TrainBatch")
    /\ pc' = "batch"
    /\ UNCHANGED <<configVars, modelVars, epoch, params, mode,
                   optimizer_steps, num_training_steps, pearson_corr,
                   history, best_pearson, checkpoint, writes, best_log>>

\* After the batch loop: avg_train_loss, and the head of evaluate_model:
\* model.eval(); preds, labels = [], []; with torch.no_grad().
EvaluateModelBegin ==
    /\ pc = "batch"
    /\ UNCHANGED <<dataVars, passVars>>
    /\ LoaderExhausted(batch_idx, num_batches)
    /\ mode' = Module_eval(mode)
    /\ grad_enabled' = FALSE
    /\ val_idx' = 0
    /\ pc' = "validate"
    /\ UNCHANGED <<configVars, modelVars, epoch, batch_idx, params,
                   optimizer_steps, scheduler_steps, num_training_steps,
                   total_loss, pearson_corr, history, best_pearson,
                   checkpoint, writes, best_log, trace, num_val_batches>>

\* for batch in val_loader: forward, preds.extend, labels.extend.
EvaluateModelBatch ==
    /\ pc = "validate"
    /\ UNCHANGED <<dataVars, passVars>>
    /\ ~LoaderExhausted(val_idx, num_val_batches)
    /\ val_idx' = val_idx + 1
    /\ UNCHANGED <<pc, configVars, modelVars, epoch, batch_idx, params, mode,
                   optimizer_steps, scheduler_steps, num_training_steps,
                   total_loss, pearson_corr, history, best_pearson,
                   checkpoint, writes, best_log, trace, grad_enabled,
                   num_val_batches>>

\* val_loader is exhausted: the no_grad block ends, pearsonr, return;
\* history.append((avg_train_loss, pearson_corr)).
Validate ==
    /\ pc = "validate"
    /\ UNCHANGED <<dataVars, passVars>>
    /\ LoaderExhausted(val_idx, num_val_batches)
    /\ grad_enabled' = TRUE
    /\ \E corr \in Metrics :
           /\ pearson_corr' = corr
           /\ history' = Append(history,
                  <<AvgTrainLoss(total_loss, num_batches), corr>>)
    /\ trace' = Append(trace, "Validate")
    /\ pc' = "decide"
    /\ UNCHANGED <<configVars, modelVars, epoch, batch_idx, params, mode,
                   optimizer_steps, scheduler_steps, num_training_steps,
                   total_loss, best_pearson, checkpoint, writes, best_log,
                   num_val_batches, val_idx>>

\* if pearson_corr > best_pearson: best_pearson = pearson_corr; torch.save.
CheckpointDecision ==
    /\ pc = "decide"
    /\ UNCHANGED <<dataVars, passVars, evalVars>>
    /\ IF Improves(pearson_corr, best_pearson)
       THEN /\ best_pearson' = pearson_corr
            /\ checkpoint' = params
            /\ writes' = [writes EXCEPT ![Len(writes)] = @ + 1]
       ELSE UNCHANGED <<best_pearson, checkpoint, writes>>
    /\ best_log' = Append(best_log, best_pearson')
    /\ trace' = Append(trace, "CheckpointDecision")
    /\ pc' = "epoch"
    /\ UNCHANGED <<configVars, modelVars, epoch, batch_idx, params, mode,
                   optimizer_steps, scheduler_steps, num_training_steps,
                   total_loss, pearson_corr, history>>

\* model.load_state_dict(torch.load(best_model_path)); return history,
\* best_pearson.
TerminateReturn ==
    /\ pc = "terminate"
    /\ UNCHANGED <<dataVars, passVars, evalVars>>
    /\ checkpoint # NoFile
    /\ params' = checkpoint
    /\ trace' = Append(trace, "Terminate")
    /\ pc' = "returned"
    /\ UNCHANGED <<configVars, modelVars, epoch, batch_idx, mode,
                   optimizer_steps, scheduler_steps, num_training_steps,
                   total_loss, pearson_corr, history, best_pearson,
                   checkpoint, writes, best_log>>

\* torch.load(best_model_path) finds no file and raises FileNotFoundError.
TerminateRaise ==
    /\ pc = "terminate"
    /\ UNCHANGED <<dataVars, passVars, evalVars>>
    /\ checkpoint = NoFile
    /\ trace' = Append(trace, "Terminate")
    /\ pc' = "raised"
    /\ UNCHANGED <<configVars, modelVars, epoch, batch_idx, params, mode,
                   optimizer_steps, scheduler_steps, num_training_steps,
                   total_loss, pearson_corr, history, best_pearson,
                   checkpoint, writes, best_log>>

Next ==
    \/ Construct
    \/ TrainModelInit
    \/ EpochHead
    \/ EpochLoopExit
    \/ TrainBatch
    \/ TrainBatchEnd
    \/ EvaluateModelBegin
    \/ EvaluateModelBatch
    \/ Validate
    \/ CheckpointDecision
    \/ TerminateReturn
    \/ TerminateRaise

Spec == Init /\ [][Next]_vars

\* -------------------------------------------- data pipeline: specification
trainVars == <<pc, model_type, freeze_layers, requires_grad, embeddings_grad,
               epochs, num_batches, epoch, batch_idx, params, mode,
               optimizer_steps, scheduler_steps, num_training_steps,
               total_loss, pearson_corr, history, best_pearson, checkpoint,
               writes, best_log, trace, evalVars>>

\* No model is built or trained (the data pipeline's specification).
TrainIdle ==
    /\ pc = "idle"
    /\ model_type = "bert"
    /\ freeze_layers = 0
    /\ requires_grad = Pretrained(NumLayers).layers
    /\ embeddings_grad = Pretrained(NumLayers).embeddings
    /\ epochs = 0
    /\ num_batches = 0
    /\ num_val_batches = 0
    /\ val_idx = 0
    /\ grad_enabled = TRUE
    /\ epoch = 0
    /\ batch_idx = 0
    /\ params = StateDict("this", 0)
    /\ mode = "train"
    /\ optimizer_steps = 0
    /\ scheduler_steps = 0
    /\ num_training_steps = 0
    /\ total_loss = Num(0)
    /\ pearson_corr = NaN
    /\ history = <<>>
    /\ best_pearson = NegInf
    /\ checkpoint = NoFile
    /\ writes = <<>>
    /\ best_log = <<>>
    /\ trace = <<>>

\* The source's records and the csv_path setting, before the dataset cell.
InitData ==
    /\ TrainIdle
    /\ PassIdle
    /\ dpc = "load"
    /\ csv_path \in {"None", "custom.csv"}
    /\ source \in [1..NumExamples -> SourceRecords]
    /\ dataset = <<>>
    /\ tokenized_datasets = <<>>
    /\ loader_pos = 0
    /\ examples = <<>>
    /\ batch = NoBatch
    /\ loss_labels = <<>>

\* dataset = load_dataset("mteb/stsbenchmark-sts") if csv_path is None
LoadBenchmark ==
    /\ dpc = "load"
    /\ csv_path = "None"
    /\ dataset' = load_dataset(source)
    /\ dpc' = "tokenize"
    /\ UNCHANGED <<trainVars, passVars, csv_path, source, tokenized_datasets,
                   loader_pos, examples, batch, loss_labels>>

\* ... else load_custom_dataset(csv_path)
LoadCustom ==
    /\ dpc = "load"
    /\ csv_path # "None"
    /\ dataset' = load_custom_dataset(source)
    /\ dpc' = "tokenize"
    /\ UNCHANGED <<trainVars, passVars, csv_path, source, tokenized_datasets,
                   loader_pos, examples, batch, loss_labels>>

\* tokenized_datasets = dataset.map(tokenize_function, batched=True)
Tokenize ==
    /\ dpc = "tokenize"
    /\ tokenized_datasets' = tokenize_function(dataset)
    /\ dpc' = "fetch"
    /\ UNCHANGED <<trainVars, passVars, csv_path, source, dataset, loader_pos,
                   examples, batch, loss_labels>>

\* The DataLoader yields its next batch: the STSDataset items at the batch's
\* indices, collated by data_collator.
FetchBatch ==
    /\ dpc = "fetch"
    /\ loader_pos < LoaderLen(Len(tokenized_datasets))
    /\ LET idx == BatchIndices(loader_pos, Len(tokenized_datasets))
           exs == [k \in 1..Len(idx) |->
                      STSDataset_getitem(tokenized_datasets, idx[k])]
       IN  /\ examples' = exs
           /\ batch' = CustomDataCollatorWithPadding_call(exs)
    /\ loader_pos' = loader_pos + 1
    /\ dpc' = "consume"
    /\ UNCHANGED <<trainVars, passVars, csv_path, source, dataset,
                   tokenized_datasets, loss_labels>>

\* The loop body that takes the batch: batch["labels"] goes to the loss
\* (train_model) or to the gold labels of the metric (evaluate_model).
ConsumeBatch ==
    /\ dpc = "consume"
    /\ loss_labels' = batch.labels
    /\ dpc' = "fetch"
    /\ UNCHANGED <<trainVars, passVars, csv_path, source, dataset,
                   tokenized_datasets, loader_pos, examples, batch>>

NextData ==
    \/ LoadBenchmark
    \/ LoadCustom
    \/ Tokenize
    \/ FetchBatch
    \/ ConsumeBatch

SpecData == InitData /\ [][NextData]_vars

\* ----------------------------------- one pass over a loader: specification
\* The sentence pairs of the passes: two pairs of the same sentences with
\* scores at the two ends of the scale, and a pair with a longer first
\* sentence.
PassRecords ==
    {[sentence1 |-> Sentence(0, 1), sentence2 |-> Sentence(MaxWords, 1),
      score |-> Fixed(0)],
     [sentence1 |-> Sentence(0, 1), sentence2 |-> Sentence(MaxWords, 1),
      score |-> Fixed(5)],
     [sentence1 |-> Sentence(0, 2), sentence2 |-> Sentence(MaxWords, 1),
      score |-> Fixed(5)]}

\* len(dataset) of the passes: one full batch, one full batch and a final
\* batch of one example, two full batches.
PassLengths == {batch_size, NumExamples, 2 * batch_size}

\* The batch with the side-1 attention mask of row j set to zeros (j = 0:
\* the batch as it is).
MaskedOut(b, j) ==
    [b EXCEPT !.attention_mask1 =
        [i \in 1..Len(b.attention_mask1) |->
            IF i = j THEN [p \in 1..Len(b.attention_mask1[i]) |-> 0]
            ELSE b.attention_mask1[i]]]

\* The items of direct calls: either first sentence with either second one.
CallItems ==
    {STSDataset_getitem(tokenize_function(<<r>>), 1) :
        r \in [sentence1 : {Sentence(0, 1), Sentence(0, 2)},
               sentence2 : Sentences2,
               score : {Fixed(0)}]}

\* The tensors a caller can hand to model(...) directly: collated batches of
\* up to batch_size items, with any one mask zeroed or none.
CallBatches ==
    UNION {{MaskedOut(CustomDataCollatorWithPadding_call(exs), j) :
               exs \in [1..n -> CallItems], j \in 0..n} :
           n \in 1..batch_size}

\* scipy.stats.pearsonr(x, y): the correlation of the centred vectors, nan
\* when one of them is constant.
pearsonr(x, y) ==
    IF ~AllNum(x) \/ ~AllNum(y) THEN NaN
    ELSE LET n == Len(x)
             xm == Centred(Vals(x))
             ym == Centred(Vals(y))
             normxm2 == Sum([i \in 1..n |-> xm[i] * xm[i]])
             normym2 == Sum([i \in 1..n |-> ym[i] * ym[i]])
         IN  IF normxm2 = 0 \/ normym2 = 0 THEN NaN
             ELSE Num((Sum([i \in 1..n |-> xm[i] * ym[i]]) * Divisor)
                      \div ISqrt(normxm2 * normym2))

\* A list.extend that puts the new items in front.
Extend_InFront(list, items) == items \o list

\* list.extend(items)
Extend(list, items) == list \o items

\* The un-scaling of infer_similarity: tanh(similarity) * 2.5 + 2.5 for a
\* SiameseBERT, similarity * 5 for the other classes.
Unscale(t, raw) ==
    IF raw.kind # "num" THEN NaN
    ELSE IF t = "siamese" THEN Num((Tanh(raw.val) * 5 + Fixed(5)) \div 2)
    ELSE Num(raw.val * 5)

\* A model, and the call that is about to run on it: the batch loop of one
\* epoch of train_model, evaluate_model, infer_similarity, or model(...)
\* itself.
InitPass ==
    /\ pc = "idle"
    /\ model_type \in ModelTypes
    /\ freeze_layers = 0
    /\ requires_grad = Pretrained(NumLayers).layers
    /\ embeddings_grad = Pretrained(NumLayers).embeddings
    /\ epochs = 1
    /\ num_val_batches = 0
    /\ val_idx = 0
    /\ grad_enabled = TRUE
    /\ epoch = 0
    /\ batch_idx = 0
    /\ params = StateDict("this", 0)
    /\ mode = "train"
    /\ optimizer_steps = 0
    /\ scheduler_steps = 0
    /\ total_loss = Num(0)
    /\ pearson_corr = NaN
    /\ history = <<>>
    /\ best_pearson = NegInf
    /\ checkpoint = NoFile
    /\ writes = <<>>
    /\ best_log = <<>>
    /\ trace = <<>>
    /\ dpc = "idle"
    /\ phase \in {"train", "eval", "infer", "call"}
    /\ csv_path = "None"
    /\ \/ /\ phase \in {"train", "eval"}
          /\ \E n \in PassLengths : source \in [1..n -> PassRecords]
          /\ batch = NoBatch
          /\ ppc = "begin"
       \/ /\ phase = "infer"
          /\ source \in [1..1 -> SourceRecords]
          /\ batch = NoBatch
          /\ ppc = "begin"
       \/ /\ phase = "call"
          /\ source = <<>>
          /\ batch \in CallBatches
          /\ ppc = "forward"
    /\ dataset =
           IF phase \in {"train", "eval"} THEN load_dataset(source) ELSE <<>>
    /\ tokenized_datasets = tokenize_function(dataset)
    /\ num_batches = LoaderLen(Len(tokenized_datasets))
    /\ num_training_steps = NumTrainingSteps(num_batches, epochs)
    /\ loader_pos = 0
    /\ examples = <<>>
    /\ loss_labels = <<>>
    /\ outputs = NoTensor
    /\ loss = None
    /\ params_defined = TRUE
    /\ avg_train_loss = None
    /\ preds = <<>>
    /\ labels = <<>>
    /\ similarity = None

passConfig == <<pc, model_type, freeze_layers, requires_grad, embeddings_grad,
                epochs, num_batches, epoch, num_training_steps, history,
                best_pearson, checkpoint, writes, best_log, trace, dpc,
                csv_path, source, dataset, tokenized_datasets, phase,
                num_val_batches, val_idx>>

\* The head of an epoch of train_model: total_loss = 0, model.train().
TrainEpochBegin ==
    /\ phase = "train" /\ ppc = "begin"
    /\ total_loss' = Num(0)
    /\ mode' = Module_train(mode)
    /\ ppc' = "fetch"
    /\ UNCHANGED <<passConfig, grad_enabled,
                   batch_idx, params, optimizer_steps,
                   scheduler_steps, pearson_corr, loader_pos, examples,
                   batch, loss_labels, outputs, loss, params_defined,
                   avg_train_loss, preds, labels, similarity>>

\* The head of evaluate_model: model.eval(); preds, labels = [], []; with
\* torch.no_grad().
EvaluateBegin ==
    /\ phase = "eval" /\ ppc = "begin"
    /\ mode' = Module_eval(mode)
    /\ preds' = <<>>
    /\ labels' = <<>>
    /\ grad_enabled' = FALSE
    /\ ppc' = "fetch"
    /\ UNCHANGED <<passConfig, batch_idx, params, optimizer_steps,
                   scheduler_steps, total_loss, pearson_corr, loader_pos,
                   examples, batch, loss_labels, outputs, loss,
                   params_defined, avg_train_loss, similarity>>

\* for batch in train_loader / val_loader: the loader yields its next batch,
\* collated by data_collator.
LoaderNext ==
    /\ phase \in {"train", "eval"} /\ ppc = "fetch"
    /\ loader_pos < LoaderLen(Len(tokenized_datasets))
    /\ LET idx == BatchIndices(loader_pos, Len(tokenized_datasets))
           exs == [k \in 1..Len(idx) |->
                      STSDataset_getitem(tokenized_datasets, idx[k])]
       IN  /\ examples' = exs
           /\ batch' = CustomDataCollatorWithPadding_call(exs)
    /\ loader_pos' = loader_pos + 1
    /\ ppc' = "forward"
    /\ UNCHANGED <<passConfig, grad_enabled,
                   batch_idx, params, mode, optimizer_steps,
                   scheduler_steps, total_loss, pearson_corr, loss_labels,
                   outputs, loss, params_defined, avg_train_loss, preds,
                   labels, similarity>>

\* outputs = model(inputs1, mask1, inputs2, mask2)
ForwardStep ==
    /\ ppc = "forward"
    /\ outputs' = Forward(model_type, params_defined, batch)
    /\ ppc' = CASE phase = "train" -> "loss"
                [] phase = "eval" -> "collect"
                [] phase = "infer" -> "unscale"
                [] phase = "call" -> "returned"
    /\ UNCHANGED <<passConfig, grad_enabled,
                   batch_idx, params, mode, optimizer_steps,
                   scheduler_steps, total_loss, pearson_corr, loader_pos,
                   examples, batch, loss_labels, loss, params_defined,
                   avg_train_loss, preds, labels, similarity>>

\* labels = batch["labels"]; loss = pearson_correlation_loss(outputs,
\* labels) or MSELoss()(outputs, labels).
ComputeLoss ==
    /\ phase = "train" /\ ppc = "loss"
    /\ loss_labels' = batch.labels
    /\ loss' = BatchLoss(model_type, outputs.data, LabelFloats(batch.labels))
    /\ ppc' = "optimizer"
    /\ UNCHANGED <<passConfig, grad_enabled,
                   batch_idx, params, mode, optimizer_steps,
                   scheduler_steps, total_loss, pearson_corr, loader_pos,
                   examples, batch, outputs, params_defined, avg_train_loss,
                   preds, labels, similarity>>

\* loss.backward(); optimizer.step(): the gradients of a nan loss are nan and
\* leave nan in the parameters.
OptimizerStep ==
    /\ phase = "train" /\ ppc = "optimizer"
    /\ params' = StateDict(params.origin, params.step + 1)
    /\ params_defined' = (params_defined /\ loss.kind = "num")
    /\ optimizer_steps' = optimizer_steps + 1
    /\ ppc' = "scheduler"
    /\ UNCHANGED <<passConfig, grad_enabled,
                   batch_idx, mode, scheduler_steps, total_loss,
                   pearson_corr, loader_pos, examples, batch, loss_labels,
                   outputs, loss, avg_train_loss, preds, labels, similarity>>

\* scheduler.step(); total_loss += loss.item()
SchedulerStep ==
    /\ phase = "train" /\ ppc = "scheduler"
    /\ scheduler_steps' = scheduler_steps + 1
    /\ total_loss' = AddLoss(total_loss, loss)
    /\ batch_idx' = batch_idx + 1
    /\ ppc' = "fetch"
    /\ UNCHANGED <<passConfig, grad_enabled,
                   params, mode, optimizer_steps, pearson_corr,
                   loader_pos, examples, batch, loss_labels, outputs, loss,
                   params_defined, avg_train_loss, preds, labels,
                   similarity>>

\* After the batch loop: avg_train_loss = total_loss / len(train_loader).
TrainEpochEnd ==
    /\ phase = "train" /\ ppc = "fetch"
    /\ loader_pos >= LoaderLen(Len(tokenized_datasets))
    /\ avg_train_loss' = AvgTrainLoss(total_loss, num_batches)
    /\ ppc' = "returned"
    /\ UNCHANGED <<passConfig, grad_enabled,
                   batch_idx, params, mode, optimizer_steps,
                   scheduler_steps, total_loss, pearson_corr, loader_pos,
                   examples, batch, loss_labels, outputs, loss,
                   params_defined, preds, labels, similarity>>

\* preds.extend(outputs.cpu().numpy()); labels.extend(lbls.cpu().numpy())
Collect ==
    /\ phase = "eval" /\ ppc = "collect"
    /\ outputs.dim = 1
    /\ preds' = Extend(preds, outputs.data)
    /\ labels' = Extend(labels, LabelFloats(batch.labels))
    /\ loss_labels' = batch.labels
    /\ ppc' = "fetch"
    /\ UNCHANGED <<passConfig, grad_enabled,
                   batch_idx, params, mode, optimizer_steps,
                   scheduler_steps, total_loss, pearson_corr, loader_pos,
                   examples, batch, outputs, loss, params_defined,
                   avg_train_loss, similarity>>

\* preds.extend of a scalar tensor's array: iteration over a 0-d array raises
\* TypeError.
CollectRaise ==
    /\ phase = "eval" /\ ppc = "collect"
    /\ outputs.dim = 0
    /\ grad_enabled' = TRUE
    /\ ppc' = "raised"
    /\ UNCHANGED <<passConfig, batch_idx, params, mode, optimizer_steps,
                   scheduler_steps, total_loss, pearson_corr, loader_pos,
                   examples, batch, loss_labels, outputs, loss,
                   params_defined, avg_train_loss, preds, labels,
                   similarity>>

\* correlation, _ = pearsonr(preds, labels); return correlation
EvaluateReturn ==
    /\ phase = "eval" /\ ppc = "fetch"
    /\ loader_pos >= LoaderLen(Len(tokenized_datasets))
    /\ pearson_corr' = pearsonr(preds, labels)
    /\ grad_enabled' = TRUE
    /\ ppc' = "returned"
    /\ UNCHANGED <<passConfig, batch_idx, params, mode, optimizer_steps,
                   scheduler_steps, total_loss, loader_pos, examples, batch,
                   loss_labels, outputs, loss, params_defined,
                   avg_train_loss, preds, labels, similarity>>

\* The head of infer_similarity: model.eval(); with torch.no_grad(); both
\* sentences tokenized with padding="max_length", return_tensors="pt".
InferTokenize ==
    /\ phase = "infer" /\ ppc = "begin"
    /\ mode' = Module_eval(mode)
    /\ LET encoded1 == Tokenizer(source[1].sentence1, "max_length", max_length)
           encoded2 == Tokenizer(source[1].sentence2, "max_length", max_length)
       IN  batch' = [input_ids1 |-> <<encoded1.input_ids>>,
                     attention_mask1 |-> <<encoded1.attention_mask>>,
                     input_ids2 |-> <<encoded2.input_ids>>,
                     attention_mask2 |-> <<encoded2.attention_mask>>,
                     labels |-> <<>>]
    /\ grad_enabled' = FALSE
    /\ ppc' = "forward"
    /\ UNCHANGED <<passConfig, batch_idx, params, optimizer_steps,
                   scheduler_steps, total_loss, pearson_corr, loader_pos,
                   examples, loss_labels, outputs, loss, params_defined,
                   avg_train_loss, preds, labels, similarity>>

\* The tail of infer_similarity: the output is un-scaled by class and
\* returned with .item().
InferReturn ==
    /\ phase = "infer" /\ ppc = "unscale"
    /\ similarity' = Unscale(model_type, outputs.data[1])
    /\ grad_enabled' = TRUE
    /\ ppc' = "returned"
    /\ UNCHANGED <<passConfig, batch_idx, params, mode, optimizer_steps,
                   scheduler_steps, total_loss, pearson_corr, loader_pos,
                   examples, batch, loss_labels, outputs, loss,
                   params_defined, avg_train_loss, preds, labels>>

NextPass ==
    \/ TrainEpochBegin
    \/ EvaluateBegin
    \/ LoaderNext
    \/ ForwardStep
    \/ ComputeLoss
    \/ OptimizerStep
    \/ SchedulerStep
    \/ TrainEpochEnd
    \/ Collect
    \/ CollectRaise
    \/ EvaluateReturn
    \/ InferTokenize
    \/ InferReturn

SpecPass == InitPass /\ [][NextPass]_vars

\* ------------------------------------------------- properties: train_model
\* The validation metric recorded for epoch k (1-based).
MetricOf(k) == history[k][2]

\* m is a defined metric that strictly exceeds b, where b is a defined metric
\* or the initial sentinel.
StrictlyExceeds(m, b) ==
    /\ m.kind = "num"
    /\ b.kind = "ninf" \/ (b.kind = "num" /\ m.val > b.val)

\* The best defined metric among epochs 1..k of the history, the sentinel
\* when there is none.
RECURSIVE BestSeen(_)
BestSeen(k) ==
    IF k = 0 THEN NegInf
    ELSE IF StrictlyExceeds(MetricOf(k), BestSeen(k - 1)) THEN MetricOf(k)
    ELSE BestSeen(k - 1)

\* The parameters the live model has at the end of epoch k of this run.
ParamsAfterEpoch(k) == StateDict("this", k * num_batches)

\* C1: the checkpoint decision of an epoch writes the checkpoint and updates
\* best_pearson if and only if the epoch's validation metric strictly exceeds
\* the best metric of the earlier epochs of the run; otherwise both are left
\* unchanged; no other step of the loop touches them, and no epoch writes
\* more than once.
C1_DecisionStep ==
    /\ pc = "decide" =>
           IF StrictlyExceeds(MetricOf(epoch), BestSeen(epoch - 1))
           THEN /\ checkpoint' = params
                /\ best_pearson' = MetricOf(epoch)
                /\ writes[epoch] = 0 /\ writes'[epoch] = 1
           ELSE /\ checkpoint' = checkpoint
                /\ best_pearson' = best_pearson
                /\ writes' = writes
    /\ pc \in {"epoch", "batch", "step", "validate"} =>
           /\ checkpoint' = checkpoint
           /\ best_pearson' = best_pearson
           /\ \A k \in 1..Len(writes) : writes'[k] = writes[k]
    /\ \A k \in 1..Len(writes') : writes'[k] <= 1

C1_WriteIffStrictlyBetter == [][C1_DecisionStep]_vars

\* A run in which one epoch wrote the checkpoint and a later epoch with an
\* equal metric did not.
C1_Witness ==
    /\ Len(best_log) >= 2
    /\ writes[1] = 1
    /\ writes[2] = 0
    /\ MetricOf(2) = MetricOf(1)
    /\ checkpoint = ParamsAfterEpoch(1)

\* C2: after the checkpoint decision of every epoch k, best_pearson is
\* greater than or equal to every validation metric of epochs 1..k, and it is
\* never lower than after the decision before.
C2_CheckpointMonotone ==
    \A k \in 1..Len(best_log) :
        /\ \A j \in 1..k : GreaterEq(best_log[k], MetricOf(j))
        /\ k > 1 => GreaterEq(best_log[k], best_log[k - 1])

\* Epoch k has the highest defined validation metric of the run, and no
\* earlier epoch has the same one.
IsBestEpoch(k) ==
    /\ MetricOf(k).kind = "num"
    /\ \A j \in 1..Len(history) :
           MetricOf(j).kind = "num" => MetricOf(j).val <= MetricOf(k).val
    /\ \A j \in 1..(k - 1) : MetricOf(j) # MetricOf(k)

\* C3: when train_model returns, the live parameters are those of the end of
\* the epoch of this run with the highest validation metric (the earliest on
\* ties), and the returned best metric is that epoch's metric.
C3_ReturnsBestEpoch ==
    pc = "returned" =>
        \E k \in 1..Len(history) :
            /\ IsBestEpoch(k)
            /\ params = ParamsAfterEpoch(k)
            /\ best_pearson = MetricOf(k)

\* C4: when no epoch's metric exceeds the initial sentinel, train_model does
\* not raise at Terminate.
C4_GracefulWithoutImprovement ==
    best_pearson = NegInf => pc # "raised"

\* One round of the epoch loop with nb batches.
RECURSIVE Batches(_)
Batches(nb) ==
    IF nb = 0 THEN <<>> ELSE <<"TrainBatch">> \o Batches(nb - 1)

RECURSIVE Rounds(_, _)
Rounds(e, nb) ==
    IF e = 0 THEN <<>>
    ELSE Batches(nb) \o <<"Validate", "CheckpointDecision">>
             \o Rounds(e - 1, nb)

\* The steps of a whole run with e epochs of nb batches.
ExpectedRun(e, nb) == <<"Init">> \o Rounds(e, nb) \o <<"Terminate">>

IsPrefix(s, t) == Len(s) <= Len(t) /\ SubSeq(t, 1, Len(s)) = s

\* C5: a run is Init, then exactly epochs rounds of (every training batch,
\* Validate, CheckpointDecision) in that order, then Terminate; the decision
\* of an epoch has that epoch's validation metric in hand.
C5_StateMachineOrder ==
    /\ IsPrefix(trace, ExpectedRun(epochs, num_batches))
    /\ pc \in {"returned", "raised"} =>
           trace = ExpectedRun(epochs, num_batches)
    /\ pc = "decide" =>
           /\ Len(history) = epoch
           /\ pearson_corr = MetricOf(epoch)
           /\ batch_idx = num_batches

\* A finished run of several epochs of several batches each.
C5_Witness ==
    /\ pc = "returned"
    /\ epochs >= 2
    /\ num_batches >= 2
    /\ Len(history) = epochs

\* The number of entries of s that are x.
RECURSIVE Count(_, _)
Count(s, x) ==
    IF Len(s) = 0 THEN 0
    ELSE (IF Head(s) = x THEN 1 ELSE 0) + Count(Tail(s), x)

\* The history grows by appending only, and holds one entry per epoch.
C19_AppendOnly ==
    /\ \/ history' = history
       \/ /\ Len(history') = Len(history) + 1
          /\ SubSeq(history', 1, Len(history)) = history
    /\ Len(history') = Count(trace', "Validate")
    /\ pc' \in {"epoch", "terminate", "returned", "raised"} =>
           Len(history') = epoch'
    /\ pc' = "returned" => Len(history') = epochs

\* Entry k of the history is (k, mean training loss, validation metric).
C19_EntryShape ==
    \A k \in 1..Len(history') :
        /\ Len(history'[k]) = 3
        /\ history'[k][1] = k
        /\ history'[k][2].kind \in {"num", "nan"}
        /\ history'[k][3] \in Metrics

\* C19: every step of a run leaves the history as it is or appends one entry
\* to it; after k completed epochs the history holds k entries; entry k is
\* (epoch index, mean training loss, validation metric) of epoch k; the
\* returned history has one entry per configured epoch.
C19_HistoryAppendOnly == [][C19_AppendOnly /\ C19_EntryShape]_vars

\* C20: the schedule's total is epochs x len(train_loader); the optimizer
\* and the scheduler are stepped once per trained batch, the optimizer
\* first; the scheduler's steps never exceed the total and equal it from
\* Terminate on.
C20_SchedulerSized ==
    pc \notin {"construct", "call"} =>
        /\ num_training_steps = epochs * num_batches
        /\ scheduler_steps = Count(trace, "TrainBatch")
        /\ optimizer_steps = scheduler_steps + (IF pc = "step" THEN 1 ELSE 0)
        /\ scheduler_steps <= num_training_steps
        /\ pc \in {"terminate", "returned", "raised"} =>
               scheduler_steps = num_training_steps

\* The optimizer has stepped and the scheduler has not yet, in the last
\* batch of a run of several epochs of several batches.
C20_Witness ==
    /\ pc = "step"
    /\ epochs >= 2 /\ num_batches >= 2
    /\ optimizer_steps = num_training_steps
    /\ scheduler_steps = num_training_steps - 1

\* C21: every training batch of every epoch is processed in training mode
\* with gradients enabled, also after an earlier epoch's validation switched
\* the model to evaluation mode, and every validation batch is processed in
\* evaluation mode with gradients disabled.
C21_ModePerBatch ==
    [][/\ TrainBatch => (mode = "train" /\ grad_enabled)
       /\ EvaluateModelBatch => (mode = "eval" /\ ~grad_enabled)]_vars

\* A training batch of a later epoch has just been processed: the validation
\* of the epoch before ran over all its batches, and the mode is training
\* again.
C21_Witness ==
    /\ pc = "step"
    /\ epoch >= 2
    /\ Len(history) = epoch - 1
    /\ val_idx = num_val_batches /\ num_val_batches >= 2
    /\ mode = "train" /\ grad_enabled

\* ------------------------------------------------ properties: constructors
\* C9: after construction with 0 <= freeze_layers <= N, encoder layer i is
\* trainable if and only if i >= N - freeze_layers, the embeddings stay
\* trainable, and this holds whichever of the three classes was built.
C9_FreezePolicy ==
    (pc # "construct" /\ 0 <= freeze_layers /\ freeze_layers <= NumLayers) =>
        /\ \A i \in 0..(NumLayers - 1) :
               requires_grad[i] <=> (i >= NumLayers - freeze_layers)
        /\ embeddings_grad

\* A constructed Siamese model with a frozen bottom layer and a trainable
\* top layer.
C9_Witness ==
    /\ pc = "call"
    /\ model_type = "siamese"
    /\ freeze_layers > 0 /\ freeze_layers < NumLayers
    /\ ~requires_grad[0]
    /\ requires_grad[NumLayers - 1]

\* C10: no training step ever runs on a model whose freeze depth is below 0
\* or above the encoder's layer count.
C10_OutOfRangeDepthRejected ==
    (freeze_layers < 0 \/ freeze_layers > NumLayers) => optimizer_steps = 0

\* ----------------------------------------------- properties: data pipeline
\* 0 <= x <= 1.0, in fixed point.
InUnitInterval(x) == 0 <= x /\ x <= Fixed(1)

\* C6: every label that reaches the collator, the loss and the evaluation
\* engine lies in [0, 1], whichever way the dataset was loaded.
C6_LabelsNormalized ==
    /\ \A i \in 1..Len(examples) : InUnitInterval(examples[i].labels)
    /\ \A i \in 1..Len(batch.labels) : InUnitInterval(batch.labels[i].val)
    /\ \A i \in 1..Len(loss_labels) : InUnitInterval(loss_labels[i].val)

\* The batch is n rows of width w that carry the rows of seqs, each followed
\* by padding whose mask is 0.
PaddedTo(ids, mask, seqIds, seqMask, n, w) ==
    /\ Len(ids) = n /\ Len(mask) = n
    /\ \A i \in 1..n :
           /\ Len(ids[i]) = w /\ Len(mask[i]) = w
           /\ \A p \in 1..w :
                  IF p <= Len(seqIds[i])
                  THEN ids[i][p] = seqIds[i][p] /\ mask[i][p] = seqMask[i][p]
                  ELSE mask[i][p] = 0

\* The longest side-1 (side-2) sequence of the examples handed to the
\* collator.
BatchMax1 == SetMax({Len(examples[i].input_ids1) : i \in 1..Len(examples)})
BatchMax2 == SetMax({Len(examples[i].input_ids2) : i \in 1..Len(examples)})

\* C7: the collated width of each side is that side's maximum within the
\* batch, every row of a side has that width, positions within an example's
\* length keep its ids and mask, and positions beyond it have mask 0.
C7_BatchLocalPadding ==
    dpc = "consume" =>
        /\ PaddedTo(batch.input_ids1, batch.attention_mask1,
                    [i \in 1..Len(examples) |-> examples[i].input_ids1],
                    [i \in 1..Len(examples) |-> examples[i].attention_mask1],
                    Len(examples), BatchMax1)
        /\ PaddedTo(batch.input_ids2, batch.attention_mask2,
                    [i \in 1..Len(examples) |-> examples[i].input_ids2],
                    [i \in 1..Len(examples) |-> examples[i].attention_mask2],
                    Len(examples), BatchMax2)

\* A collated batch whose side-1 rows were padded to a width that is neither
\* the side-2 width, nor the corpus maximum, nor max_length.
C7_Witness ==
    /\ dpc = "consume"
    /\ Len(examples) >= 2
    /\ Len(examples[1].input_ids1) < Len(examples[2].input_ids1)
    /\ batch.attention_mask1[1][BatchMax1] = 0
    /\ BatchMax1 # BatchMax2
    /\ \E i \in 1..Len(tokenized_datasets) :
           Len(tokenized_datasets[i].input_ids1) > BatchMax1
    /\ BatchMax1 < max_length

\* s is the start of t.
StartsWith(t, s) == Len(s) <= Len(t) /\ SubSeq(t, 1, Len(s)) = s

\* C8: the labels vector has one entry per input example, in input order,
\* and row i of both sides' ids and masks comes from input example i.
C8_OrderPreserved ==
    dpc = "consume" =>
        /\ Len(batch.labels) = Len(examples)
        /\ \A i \in 1..Len(examples) :
               /\ batch.labels[i].val = examples[i].labels
               /\ StartsWith(batch.input_ids1[i], examples[i].input_ids1)
               /\ StartsWith(batch.attention_mask1[i],
                             examples[i].attention_mask1)
               /\ StartsWith(batch.input_ids2[i], examples[i].input_ids2)
               /\ StartsWith(batch.attention_mask2[i],
                             examples[i].attention_mask2)

\* A collated batch of examples that differ in label and in both sentences.
C8_Witness ==
    /\ dpc = "consume"
    /\ Len(examples) >= 2
    /\ examples[1].labels # examples[2].labels
    /\ examples[1].input_ids1 # examples[2].input_ids1
    /\ examples[1].input_ids2 # examples[2].input_ids2
    /\ batch.labels[1].val = examples[1].labels

\* ------------------------------------------------------ properties: passes
\* The model has just run on the batch that is in hand.
ForwardDone ==
    \/ ppc \in {"loss", "optimizer", "scheduler", "collect", "unscale"}
    \/ phase = "call" /\ ppc = "returned"

\* 1 - x
OneMinus(x) == IF x.kind = "num" THEN Num(Fixed(1) - x.val) ELSE NaN

\* The mean of the squared differences of x and y.
MeanSquaredError(x, y) ==
    IF ~AllNum(x) \/ ~AllNum(y) THEN NaN
    ELSE Num(Sum([i \in 1..Len(x) |-> (x[i].val - y[i].val) ^ 2])
             \div (Len(x) * Divisor))

\* C11: the loss of every training batch is 1 - Pearson correlation(outputs,
\* labels) when the architecture is the Siamese one and the mean squared
\* error against the labels when it is the Concatenation or Cross-Attention
\* one, whichever batch of the run it is.
C11_LossByArchitecture ==
    (phase = "train" /\ ppc \in {"optimizer", "scheduler"}) =>
        loss = IF model_type = "siamese"
               THEN OneMinus(pearsonr(outputs.data,
                                      LabelFloats(batch.labels)))
               ELSE MeanSquaredError(outputs.data, LabelFloats(batch.labels))

\* A Siamese training batch, not the first of its epoch, whose Pearson loss
\* is defined and is not the batch's mean squared error.
C11_Witness ==
    /\ phase = "train" /\ ppc = "scheduler"
    /\ model_type = "siamese"
    /\ batch_idx >= 1
    /\ loss.kind = "num"
    /\ loss # MeanSquaredError(outputs.data, LabelFloats(batch.labels))

\* C12: in Pearson-loss training no undefined loss is computed and carried
\* on: the loss handed to backward is defined, the optimizer leaves no nan
\* in the parameters, and neither the epoch's total nor its mean training
\* loss is nan.
C12_DegenerateBatchHandled ==
    (phase = "train" /\ LossFunction(model_type) = "pearson") =>
        /\ loss.kind # "nan"
        /\ params_defined
        /\ total_loss.kind # "nan"
        /\ avg_train_loss.kind # "nan"

\* Some example of the batch has an attention mask that sums to 0.
SomeMaskAllZero ==
    \E i \in 1..Len(batch.attention_mask1) :
        Sum(batch.attention_mask1[i]) = 0 \/ Sum(batch.attention_mask2[i]) = 0

\* C13: the Cross-Attention forward never completes with a nan score that
\* comes from pooling over an all-zero mask.
C13_ZeroMaskNotSilent ==
    (model_type = "cross" /\ params_defined /\ ForwardDone
         /\ SomeMaskAllZero) =>
        AllNum(outputs.data)

\* Batch b with the inputs of example j replaced by those of example k.
WithRow(b, j, k) ==
    [b EXCEPT
        !.input_ids1 = [@ EXCEPT ![j] = b.input_ids1[k]],
        !.attention_mask1 = [@ EXCEPT ![j] = b.attention_mask1[k]],
        !.input_ids2 = [@ EXCEPT ![j] = b.input_ids2[k]],
        !.attention_mask2 = [@ EXCEPT ![j] = b.attention_mask2[k]]]

\* The batches that differ from b in the inputs of example j only: example
\* j takes the inputs of another example, or an all-zero mask.
Alternatives(b, j) ==
    {WithRow(b, j, k) : k \in 1..Len(b.input_ids1)} \cup {MaskedOut(b, j)}

\* attn_output of the Cross-Attention forward on batch b.
AttnOutput(b) == CrossAttentionModel_attention(CrossAttentionModel_pooled(b))

\* The entries of seq at every position but j.
Others(seq, j) == [i \in (1..Len(seq)) \ {j} |-> seq[i]]

\* C14: in the Cross-Attention model, changing the inputs of example j of a
\* batch leaves the attention output and the score of every other example i
\* of the batch as they were.
C14_NoCrossExampleMixing ==
    (model_type = "cross" /\ phase = "call" /\ ppc = "returned") =>
        \A j \in 1..Len(batch.input_ids1) :
            \A other \in Alternatives(batch, j) :
                /\ Others(Forward("cross", TRUE, other).data, j)
                       = Others(outputs.data, j)
                /\ Others(AttnOutput(other), j) = Others(AttnOutput(batch), j)

\* A Cross-Attention batch of several examples whose second example can be
\* given another second sentence, which changes that example's attention
\* output and score.
C14_Witness ==
    /\ model_type = "cross" /\ phase = "call" /\ ppc = "returned"
    /\ Len(batch.input_ids1) >= 2
    /\ AllNum(outputs.data)
    /\ \E other \in Alternatives(batch, 2) :
           /\ other.input_ids2[2] # batch.input_ids2[2]
           /\ Forward("cross", TRUE, other).data[2] # outputs.data[2]
           /\ AttnOutput(other)[2] # AttnOutput(batch)[2]

\* C15: the score infer_similarity returns lies in [0, 5], for every class
\* and every raw output.
C15_UnscaledInRange ==
    (phase = "infer" /\ ppc = "returned") =>
        /\ similarity.kind = "num"
        /\ 0 <= similarity.val /\ similarity.val <= Fixed(5)

\* An inference on a Siamese model whose raw output lies outside [0, 1] and
\* whose returned score is five times neither the raw output nor its
\* squashed value.
C15_Witness ==
    /\ phase = "infer" /\ ppc = "returned"
    /\ model_type = "siamese"
    /\ outputs.data[1].val < 0
    /\ similarity.val # outputs.data[1].val * 5
    /\ similarity.val # Tanh(outputs.data[1].val) * 5
    /\ 0 <= similarity.val /\ similarity.val < Fixed(5) \div 2

\* C16: whatever the batch size, forward returns a one-dimensional tensor
\* with one score per example of the batch.
C16_ForwardReturnsVector ==
    ForwardDone =>
        /\ outputs.dim = 1
        /\ Len(outputs.data) = Len(batch.input_ids1)

\* The sequences hold no padding beyond the batch's longest: some row of
\* each side is unpadded.
PaddedToLongest(ids, mask) ==
    \E i \in 1..Len(ids) :
        \A p \in 1..Len(ids[i]) : mask[i][p] = 1 /\ ids[i][p] # pad_token_id

\* C17: on the training, evaluation and inference paths the tokenized
\* sequences hold no padding, and every batch handed to a model is padded
\* to its own longest sequence only.
C17_OnlyCollatorPads ==
    /\ \A i \in 1..Len(tokenized_datasets) :
           /\ \A p \in 1..Len(tokenized_datasets[i].input_ids1) :
                  tokenized_datasets[i].input_ids1[p] # pad_token_id
           /\ \A p \in 1..Len(tokenized_datasets[i].input_ids2) :
                  tokenized_datasets[i].input_ids2[p] # pad_token_id
    /\ (phase \in {"train", "eval", "infer"} /\ ppc = "forward") =>
           /\ PaddedToLongest(batch.input_ids1, batch.attention_mask1)
           /\ PaddedToLongest(batch.input_ids2, batch.attention_mask2)

\* The collated batch number pos (0-based) of the loader.
LoaderBatch(pos) ==
    LET idx == BatchIndices(pos, Len(tokenized_datasets))
    IN  CustomDataCollatorWithPadding_call(
            [j \in 1..Len(idx) |->
                STSDataset_getitem(tokenized_datasets, idx[j])])

\* C18: throughout evaluate_model the parameters are those of its start, no
\* optimizer or scheduler step is taken, and preds and labels have the same
\* length and hold, in loader order, the scores and the gold labels of the
\* examples of the batches collected so far.
C18_EvaluateLeavesModel ==
    phase = "eval" =>
        /\ params = StateDict("this", 0)
        /\ params_defined
        /\ optimizer_steps = 0 /\ scheduler_steps = 0
        /\ Len(preds) = Len(labels)
        /\ Len(preds) <= Len(tokenized_datasets)
        /\ \A pos \in 0..(LoaderLen(Len(preds)) - 1) :
               SubSeq(preds, pos * batch_size + 1,
                      Min((pos + 1) * batch_size, Len(preds)))
                   = Forward(model_type, TRUE, LoaderBatch(pos)).data
        /\ \A k \in 1..Len(labels) :
               labels[k] = Num(tokenized_datasets[k].score)

\* An evaluation that returned a defined correlation over two batches whose
\* scores and whose labels differ from one batch to the other.
C18_Witness ==
    /\ phase = "eval" /\ ppc = "returned"
    /\ pearson_corr.kind = "num"
    /\ Len(preds) = 2 * batch_size
    /\ preds[1] # preds[Len(preds)]
    /\ labels[1] # labels[Len(labels)]
    /\ SubSeq(preds, 1, batch_size)
           # SubSeq(preds, batch_size + 1, Len(preds))

====
